---- MODULE Spec2Model ----
(***************************************************************************)
(* A model of "Design Patterns Examples.cpp": the Factory Method family    *)
(* (Logistics / Transport), the Abstract Factory family (FurnitureFactory  *)
(* / Chair) and the Builder family (House, SimpleHouseBuilder, Director).  *)
(*                                                                         *)
(* Objects created with `new` live in a heap: a sequence of records, the   *)
(* index being the object's identity.  `delete` clears the live flag and   *)
(* counts the delete, so that a second delete of one object is visible.    *)
(*                                                                         *)
(* SpecBuilder is the Builder family driven by any client, SpecFactory the *)
(* two factory families driven by any client.                              *)
(*                                                                         *)
(* The source file holds the program twice (lines 1-215 and 217-451), the  *)
(* second copy differing in comments only; the model follows the first.    *)
(*                                                                         *)
(* Director::builder is uninitialized until setBuilder, and the Director   *)
(* calls are defined only once it is set and while the builder lives: the  *)
(* Director actions are guarded by that precondition, as are the builder's *)
(* methods by the builder not being destroyed.  The variables calls, ops,  *)
(* returned and trace record what was invoked and returned; the program    *)
(* does not read them.                                                     *)
(***************************************************************************)
EXTENDS Naturals, Sequences, FiniteSets, TLC

\* ---------------------------------------------------------------- bounds
\* Client operations on the builder and the Director over the whole run.
MaxOps == 5
\* Client operations on the factory families over the whole run.
MaxCalls == 4

VARIABLES
    heap,       \* Houses ever allocated: [parts, live, frees]
    house,      \* SimpleHouseBuilder::house
    alive,      \* the SimpleHouseBuilder is constructed and not yet destroyed
    builder,    \* Director::builder: "unset" before setBuilder, then "builder"
    owned,      \* Houses held by the callers' unique_ptr<House>
    calls,      \* builder methods invoked since construction / the last getResult
    ops,        \* client operations since construction / the last getResult
    returned,   \* one record per getResult: the House returned, as it was returned
    transports, \* Transports ever allocated: [kind, live, frees]
    chairs,     \* Chairs ever allocated: [kind, live, frees]
    held,       \* products held by clients: [family, id]
    out,        \* the lines written to standard output
    trace       \* the factory operations called, one per line of out where it prints

builderVars == <<heap, house, alive, builder, owned, calls, ops, returned>>
factoryVars == <<transports, chairs, held, out, trace>>
vars == <<heap, house, alive, builder, owned, calls, ops, returned,
          transports, chairs, held, out, trace>>

\* ------------------------------------------------------------ the heap
\* new T(): the object is appended, its identity is its index.
New(h, obj) == Append(h, obj)

\* delete p: the destructor runs and the storage is released.
Delete(h, p) == [h EXCEPT ![p].live = FALSE, ![p].frees = @ + 1]

\* ------------------------------------------------------------- House
\* House(): parts is an empty vector.
NewHouse == [parts |-> <<>>, live |-> TRUE, frees |-> 0]

\* A plausible slip: the part is inserted at the front.
addPartFront(h, p, part) == [h EXCEPT ![p].parts = <<part>> \o @]

\* House::addPart: parts.push_back(part).
addPart(h, p, part) == [h EXCEPT ![p].parts = Append(@, part)]

\* ------------------------------------------------ SimpleHouseBuilder
\* The builder and the memory it works on, with the record of what was
\* invoked on it: m = [heap, house, calls, ops, returned].
\* A build step: house->addPart(part), the method's name being recorded.
Step(m, name, part) ==
    [m EXCEPT !.heap = addPart(m.heap, m.house, part),
              !.calls = Append(@, name)]

\* A plausible slip: a part already present is not added again.
buildWallsOnce(m) ==
    IF \E i \in DOMAIN m.heap[m.house].parts : m.heap[m.house].parts[i] = "Walls"
    THEN [m EXCEPT !.calls = Append(@, "buildWalls")]
    ELSE Step(m, "buildWalls", "Walls")

\* SimpleHouseBuilder::buildWalls: house->addPart("Walls")
buildWalls(m) == Step(m, "buildWalls", "Walls")

\* SimpleHouseBuilder::buildDoors: house->addPart("Doors")
buildDoors(m) == Step(m, "buildDoors", "Doors")

\* A plausible slip: a House that holds walls, doors and windows is complete.
buildWindowsCapped(m) ==
    IF Len(m.heap[m.house].parts) >= 3
    THEN [m EXCEPT !.calls = Append(@, "buildWindows")]
    ELSE Step(m, "buildWindows", "Windows")

\* SimpleHouseBuilder::buildWindows: house->addPart("Windows")
buildWindows(m) == Step(m, "buildWindows", "Windows")

\* What getResult hands over, as the caller receives it.
Handed(m, p) ==
    [id |-> p, parts |-> m.heap[p].parts, calls |-> m.calls, ops |-> m.ops]

\* A plausible slip: the pointer is returned and kept.
getResultKeep(m) ==
    [m EXCEPT !.calls = <<>>, !.ops = <<>>,
              !.returned = Append(@, Handed(m, m.house))]

\* A plausible slip: a copy is returned and the builder keeps its House.
getResultCopy(m) ==
    [m EXCEPT !.heap = New(m.heap, [NewHouse EXCEPT !.parts = m.heap[m.house].parts]),
              !.calls = <<>>, !.ops = <<>>,
              !.returned = Append(@, [Handed(m, m.house) EXCEPT !.id = Len(m.heap) + 1])]

\* A plausible slip: the old House is deleted when it is replaced.
getResultDelete(m) ==
    [m EXCEPT !.heap = New(Delete(m.heap, m.house), NewHouse),
              !.house = Len(m.heap) + 1,
              !.calls = <<>>, !.ops = <<>>,
              !.returned = Append(@, Handed(m, m.house))]

\* SimpleHouseBuilder::getResult: result = house; house = new House(); return result.
getResult(m) ==
    [m EXCEPT !.heap = New(m.heap, NewHouse),
              !.house = Len(m.heap) + 1,
              !.calls = <<>>, !.ops = <<>>,
              !.returned = Append(@, Handed(m, m.house))]

\* ---------------------------------------------------------- Director
\* A plausible slip: the doors are left out.
buildMinimalHouseNoDoors(m) == buildWalls(m)

\* Director::buildMinimalHouse: builder->buildWalls(); builder->buildDoors().
buildMinimalHouse(m) == buildDoors(buildWalls(m))

\* A plausible slip: the steps are called in another order.
buildFullHouseSwapped(m) == buildWindows(buildWalls(buildDoors(m)))

\* Director::buildFullHouse: buildWalls(); buildDoors(); buildWindows().
buildFullHouse(m) == buildWindows(buildDoors(buildWalls(m)))

\* ------------------------------------------------- the Builder family
\* The builder, its memory and its record, as one value.
M == [heap |-> heap, house |-> house, calls |-> calls, ops |-> ops,
      returned |-> returned]

\* The client operation `name` is recorded, then run.
Op(name) == [M EXCEPT !.ops = Append(@, name)]

\* The client operations run so far: those of the finished build cycles, each
\* ended by its getResult, and those of the cycle in progress.
RECURSIVE OpsIn(_)
OpsIn(r) ==
    IF r = <<>> THEN 0 ELSE Len(r[Len(r)].ops) + 1 + OpsIn(SubSeq(r, 1, Len(r) - 1))

OpsDone == OpsIn(returned) + Len(ops)

\* The builder's state after an operation.
Becomes(m) ==
    /\ heap' = m.heap
    /\ house' = m.house
    /\ calls' = m.calls
    /\ ops' = m.ops
    /\ returned' = m.returned

\* main, after `SimpleHouseBuilder builder; Director director;`: the builder
\* holds the House its constructor allocated, the Director's pointer is not
\* set yet, nothing was created or written.
Init ==
    /\ heap = <<NewHouse>>
    /\ house = 1
    /\ alive = TRUE
    /\ builder = "unset"
    /\ owned = {}
    /\ calls = <<>>
    /\ ops = <<>>
    /\ returned = <<>>
    /\ transports = <<>>
    /\ chairs = <<>>
    /\ held = {}
    /\ out = <<>>
    /\ trace = <<>>

\* director.setBuilder(&builder)
SetBuilder ==
    /\ alive
    /\ builder' = "builder"
    /\ UNCHANGED <<heap, house, alive, owned, calls, ops, returned>>
    /\ UNCHANGED factoryVars

\* builder.buildWalls(), called by a client
BuildWalls ==
    /\ alive
    /\ OpsDone < MaxOps
    /\ Becomes(buildWalls(Op("buildWalls")))
    /\ UNCHANGED <<alive, builder, owned, factoryVars>>

\* builder.buildDoors(), called by a client
BuildDoors ==
    /\ alive
    /\ OpsDone < MaxOps
    /\ Becomes(buildDoors(Op("buildDoors")))
    /\ UNCHANGED <<alive, builder, owned, factoryVars>>

\* builder.buildWindows(), called by a client
BuildWindows ==
    /\ alive
    /\ OpsDone < MaxOps
    /\ Becomes(buildWindows(Op("buildWindows")))
    /\ UNCHANGED <<alive, builder, owned, factoryVars>>

\* director.buildMinimalHouse(); the builder must have been set.
BuildMinimalHouse ==
    /\ alive
    /\ builder = "builder"
    /\ OpsDone < MaxOps
    /\ Becomes(buildMinimalHouse(Op("buildMinimalHouse")))
    /\ UNCHANGED <<alive, builder, owned, factoryVars>>

\* director.buildFullHouse(); the builder must have been set.
BuildFullHouse ==
    /\ alive
    /\ builder = "builder"
    /\ OpsDone < MaxOps
    /\ Becomes(buildFullHouse(Op("buildFullHouse")))
    /\ UNCHANGED <<alive, builder, owned, factoryVars>>

\* std::unique_ptr<House> h(builder.getResult()): the caller owns the result.
GetResult ==
    /\ alive
    /\ OpsDone < MaxOps
    /\ LET m == getResult(M)
       IN /\ Becomes(m)
          /\ owned' = owned \cup {m.returned[Len(m.returned)].id}
    /\ UNCHANGED <<alive, builder, factoryVars>>

\* A caller's unique_ptr<House> goes out of scope: delete.
Release ==
    \E p \in owned :
        /\ heap' = Delete(heap, p)
        /\ owned' = owned \ {p}
        /\ UNCHANGED <<house, alive, builder, calls, ops, returned, factoryVars>>

\* ~SimpleHouseBuilder: delete house.
Destructor(h, p) == Delete(h, p)

\* The builder goes out of scope.
Destroy ==
    /\ alive
    /\ alive' = FALSE
    /\ heap' = Destructor(heap, house)
    /\ UNCHANGED <<house, builder, owned, calls, ops, returned, factoryVars>>

\* ------------------------------------------------ Factory Method family
\* Truck::deliver, Ship::deliver
deliver(kind) ==
    CASE kind = "Truck" -> "Delivery by Truck"
      [] kind = "Ship" -> "Delivery by Ship"

Creators == {"RoadLogistics", "SeaLogistics"}

\* A plausible slip: both creators make the same product.
createTransportTruck(creator) == "Truck"

\* RoadLogistics::createTransport: new Truck(); SeaLogistics::createTransport: new Ship()
createTransport(creator) ==
    CASE creator = "RoadLogistics" -> "Truck"
      [] creator = "SeaLogistics" -> "Ship"

\* A freshly allocated product of a kind.
NewProduct(kind) == [kind |-> kind, live |-> TRUE, frees |-> 0]

\* A plausible slip: a raw pointer in place of the unique_ptr, never deleted.
ScopeEndLeak(h, p) == h

\* The unique_ptr that holds a created product goes out of scope: delete.
ScopeEnd(h, p) == Delete(h, p)

\* Logistics::planDelivery on a creator: one product is created, its
\* description is written with the tag, the product is released.
planDelivery(creator) ==
    LET made == New(transports, NewProduct(createTransport(creator)))
        t == Len(made)
    IN /\ out' = Append(out, "[Factory Method] " \o deliver(made[t].kind))
       /\ transports' = ScopeEnd(made, t)
       /\ trace' = Append(trace, [op |-> "planDelivery", on |-> creator,
                                  id |-> t, line |-> Len(out) + 1])

PlanDelivery ==
    /\ Len(trace) < MaxCalls
    /\ \E creator \in Creators : planDelivery(creator)
    /\ UNCHANGED <<chairs, held, builderVars>>

\* A client calls createTransport itself and keeps the product.
CreateTransport ==
    /\ Len(trace) < MaxCalls
    /\ \E creator \in Creators :
          /\ transports' = New(transports, NewProduct(createTransport(creator)))
          /\ held' = held \cup {[family |-> "Transport", id |-> Len(transports) + 1]}
          /\ trace' = Append(trace, [op |-> "createTransport", on |-> creator,
                                     id |-> Len(transports) + 1, line |-> 0])
    /\ UNCHANGED <<chairs, out, builderVars>>

\* ---------------------------------------------- Abstract Factory family
\* VictorianChair::type, ModernChair::type
type(kind) ==
    CASE kind = "VictorianChair" -> "Victorian Chair"
      [] kind = "ModernChair" -> "Modern Chair"

Factories == {"VictorianFactory", "ModernFactory"}

\* A plausible slip: the modern factory makes a chair of the other family.
createChairMixed(factory) == "VictorianChair"

\* VictorianFactory::createChair: new VictorianChair(); ModernFactory: new ModernChair()
createChair(factory) ==
    CASE factory = "VictorianFactory" -> "VictorianChair"
      [] factory = "ModernFactory" -> "ModernChair"

\* showFurniture(factory): one chair is created, its type is written with
\* the tag, the chair is released.
showFurniture(factory) ==
    LET made == New(chairs, NewProduct(createChair(factory)))
        c == Len(made)
    IN /\ out' = Append(out, "[Abstract Factory] Created: " \o type(made[c].kind))
       /\ chairs' = ScopeEnd(made, c)
       /\ trace' = Append(trace, [op |-> "showFurniture", on |-> factory,
                                  id |-> c, line |-> Len(out) + 1])

ShowFurniture ==
    /\ Len(trace) < MaxCalls
    /\ \E factory \in Factories : showFurniture(factory)
    /\ UNCHANGED <<transports, held, builderVars>>

\* A client calls createChair itself and keeps the chair.
CreateChair ==
    /\ Len(trace) < MaxCalls
    /\ \E factory \in Factories :
          /\ chairs' = New(chairs, NewProduct(createChair(factory)))
          /\ held' = held \cup {[family |-> "Chair", id |-> Len(chairs) + 1]}
          /\ trace' = Append(trace, [op |-> "createChair", on |-> factory,
                                     id |-> Len(chairs) + 1, line |-> 0])
    /\ UNCHANGED <<transports, out, builderVars>>

\* A client lets go of a product it holds: delete through the base class.
ReleaseProduct ==
    \E p \in held :
        /\ held' = held \ {p}
        /\ IF p.family = "Transport"
           THEN transports' = Delete(transports, p.id) /\ UNCHANGED chairs
           ELSE chairs' = Delete(chairs, p.id) /\ UNCHANGED transports
        /\ UNCHANGED <<out, trace, builderVars>>

NextBuilder ==
    \/ SetBuilder
    \/ BuildWalls
    \/ BuildDoors
    \/ BuildWindows
    \/ BuildMinimalHouse
    \/ BuildFullHouse
    \/ GetResult
    \/ Release
    \/ Destroy

SpecBuilder ==
    Init /\ [][NextBuilder]_vars

NextFactory ==
    \/ PlanDelivery
    \/ CreateTransport
    \/ ShowFurniture
    \/ CreateChair
    \/ ReleaseProduct

SpecFactory ==
    Init /\ [][NextFactory]_vars

\* ------------------------------------------------------------ properties
\* The part a build step stands for.
PartOf(call) ==
    CASE call = "buildWalls" -> "Walls"
      [] call = "buildDoors" -> "Doors"
      [] call = "buildWindows" -> "Windows"

\* The parts a sequence of build steps stands for, one per step, in order.
PartsOf(steps) == [i \in 1..Len(steps) |-> PartOf(steps[i])]

ReturnedIds == {returned[i].id : i \in DOMAIN returned}

\* C1: straight after a getResult (no client operation since), the builder's
\* in-progress House is the House allocated last, live, never deleted, empty
\* and none of the Houses returned so far; and every returned House holds as
\* many parts as build steps were called in its own cycle, so none from an
\* earlier one.
C1_ResetOnExtract ==
    /\ (alive /\ ops = <<>>) =>
          /\ house = Len(heap)
          /\ heap[house] = NewHouse
          /\ house \notin ReturnedIds
    /\ \A i \in DOMAIN returned : Len(returned[i].parts) = Len(returned[i].calls)

\* A second House was returned, the first one was not empty, and nothing was
\* done on the builder since.
C1_Witness ==
    /\ alive /\ ops = <<>> /\ calls = <<>>
    /\ Len(returned) >= 2
    /\ returned[1].parts # <<>>
    /\ returned[2].parts # <<>>

\* C2: a House that was returned is never the builder's current House, and
\* as long as its caller keeps it, its parts are those it was returned with.
C2_ReturnedUntouched ==
    \A i \in DOMAIN returned :
        /\ returned[i].id # house
        /\ heap[returned[i].id].live =>
              heap[returned[i].id].parts = returned[i].parts

\* A House was returned with parts, is still held, and the builder has built
\* on, directly and through the Director, and returned another House since.
C2_Witness ==
    /\ Len(returned) >= 2
    /\ returned[1].parts # <<>>
    /\ returned[1].id \in owned
    /\ \E i \in DOMAIN ops : ops[i] = "buildMinimalHouse"
    /\ \E i \in DOMAIN ops : ops[i] = "buildWindows"

\* C3: each returned House holds exactly the parts of the build steps called
\* in its cycle, one per call, in call order, duplicates kept.
C3_PartsAreSteps ==
    \A i \in DOMAIN returned : returned[i].parts = PartsOf(returned[i].calls)

\* buildWalls was called twice before one getResult, and the House returned
\* holds "Walls" twice.
C3_Witness ==
    \E i \in DOMAIN returned :
        /\ returned[i].ops = <<"buildWalls", "buildWalls">>
        /\ returned[i].parts = <<"Walls", "Walls">>

\* C4: a cycle made of buildMinimalHouse alone returns [Walls, Doors].
C4_ScenarioA ==
    \A i \in DOMAIN returned :
        returned[i].ops = <<"buildMinimalHouse">> =>
            returned[i].parts = <<"Walls", "Doors">>

\* buildMinimalHouse then getResult has happened, on the fresh builder and on
\* a builder reused after an extraction.
C4_Witness ==
    /\ Len(returned) >= 2
    /\ returned[1].ops = <<"buildMinimalHouse">>
    /\ returned[2].ops = <<"buildMinimalHouse">>

\* C5: when a cycle of buildMinimalHouse alone is followed by a cycle of
\* buildFullHouse alone, the second House is [Walls, Doors, Windows], is
\* another object than the first, and the first, while held, is still
\* [Walls, Doors].
C5_ScenarioB ==
    \A i \in DOMAIN returned :
        ( /\ i + 1 \in DOMAIN returned
          /\ returned[i].ops = <<"buildMinimalHouse">>
          /\ returned[i + 1].ops = <<"buildFullHouse">> ) =>
            /\ returned[i + 1].parts = <<"Walls", "Doors", "Windows">>
            /\ heap[returned[i + 1].id].parts = <<"Walls", "Doors", "Windows">>
            /\ returned[i + 1].id # returned[i].id
            /\ heap[returned[i].id].live =>
                  heap[returned[i].id].parts = <<"Walls", "Doors">>

\* main's run: both Houses returned and both still held.
C5_Witness ==
    /\ Len(returned) = 2
    /\ returned[1].ops = <<"buildMinimalHouse">>
    /\ returned[2].ops = <<"buildFullHouse">>
    /\ owned = {returned[1].id, returned[2].id}

\* C6, as claimed: the in-progress House never holds more than 3 parts.
C6_AtMostThreeParts == Len(heap[house].parts) <= 3

\* C6, amended: the in-progress House holds one part per build step invoked
\* since construction or the last getResult, whatever their number.
C6_OnePartPerStep == Len(heap[house].parts) = Len(calls)

\* Past Complete: buildMinimalHouse then buildFullHouse with no getResult
\* between them leaves 5 parts.
C6_Witness ==
    /\ alive
    /\ ops = <<"buildMinimalHouse", "buildFullHouse">>
    /\ Len(heap[house].parts) = 5

\* What a Director call does that invokes `steps`: these methods are invoked,
\* in this order, on the same House, which gains their parts at its end; no
\* House is allocated and none is returned.
Invokes(steps) ==
    /\ calls' = calls \o steps
    /\ house' = house
    /\ Len(heap') = Len(heap)
    /\ heap'[house].parts = heap[house].parts \o PartsOf(steps)
    /\ \A p \in DOMAIN heap : p # house => heap'[p] = heap[p]
    /\ returned' = returned

\* C7: buildMinimalHouse invokes buildWalls, buildDoors and buildFullHouse
\* invokes buildWalls, buildDoors, buildWindows, in that order; neither
\* returns or replaces the in-progress House.
C7_DirectorSteps ==
    [][ /\ BuildMinimalHouse => Invokes(<<"buildWalls", "buildDoors">>)
        /\ BuildFullHouse => Invokes(<<"buildWalls", "buildDoors", "buildWindows">>)
      ]_vars

\* Both Director calls have run, on a House that already had a part.
C7_Witness ==
    /\ builder = "builder"
    /\ ops = <<"buildWindows", "buildFullHouse", "buildMinimalHouse">>
    /\ Len(calls) = 6

\* The description each creator is bound to.
Delivery(creator) ==
    CASE creator = "RoadLogistics" -> "Delivery by Truck"
      [] creator = "SeaLogistics" -> "Delivery by Ship"

Made(family) == {i \in DOMAIN trace : trace[i].op \in family}

\* C8: each planDelivery call created one Transport of its own, wrote the
\* description its creator is bound to, and deleted the Transport, once; the
\* Transports alive are those clients created themselves and still hold.
C8_PlanDelivery ==
    /\ Len(transports) = Cardinality(Made({"planDelivery", "createTransport"}))
    /\ \A i, j \in Made({"planDelivery", "createTransport"}) :
          i # j => trace[i].id # trace[j].id
    /\ \A i \in Made({"planDelivery"}) :
          /\ trace[i].id \in DOMAIN transports
          /\ out[trace[i].line] = "[Factory Method] " \o Delivery(trace[i].on)
          /\ ~transports[trace[i].id].live
          /\ transports[trace[i].id].frees = 1
    /\ \A t \in DOMAIN transports :
          transports[t].live => [family |-> "Transport", id |-> t] \in held

\* planDelivery was called twice on one creator and once on the other, while
\* a client holds a Transport it created.
C8_Witness ==
    /\ \E i, j \in Made({"planDelivery"}) : i < j /\ trace[i].on = trace[j].on
    /\ \E i, j \in Made({"planDelivery"}) : trace[i].on # trace[j].on
    /\ \E p \in held : p.family = "Transport"

\* The description each factory's family has.
Family(factory) ==
    CASE factory = "VictorianFactory" -> "Victorian Chair"
      [] factory = "ModernFactory" -> "Modern Chair"

\* C9: every chair a factory made, for a client or within showFurniture, has
\* the description of the factory's family, whatever was called before, and
\* showFurniture wrote that description.
C9_FamilyConsistency ==
    /\ \A i \in Made({"createChair", "showFurniture"}) :
          type(chairs[trace[i].id].kind) = Family(trace[i].on)
    /\ \A i \in Made({"showFurniture"}) :
          out[trace[i].line] = "[Abstract Factory] Created: " \o Family(trace[i].on)

\* One factory made two chairs, with a chair of the other factory between them.
C9_Witness ==
    \E i, j, k \in Made({"createChair", "showFurniture"}) :
        /\ i < j /\ j < k
        /\ trace[i].on = "ModernFactory"
        /\ trace[j].on = "VictorianFactory"
        /\ trace[k].on = "ModernFactory"
        /\ trace[i].op = "createChair"
        /\ trace[k].op = "showFurniture"

\* C10: no House is deleted twice; a live House has exactly one owner, the
\* living builder (its current House) or a caller; the builder's House is
\* live while the builder is, and the destructor deleted that House and no
\* House a caller holds.
C10_SingleOwner ==
    /\ \A p \in DOMAIN heap :
          /\ heap[p].frees <= 1
          /\ heap[p].live <=> heap[p].frees = 0
          /\ heap[p].live => ((p \in owned) # (alive /\ p = house))
    /\ \A p \in owned : heap[p].live
    /\ alive => heap[house].live /\ house \notin owned
    /\ ~alive => heap[house].frees = 1

\* The builder was destroyed while a caller still holds a House it returned,
\* another returned House having been released before.
C10_Witness ==
    /\ ~alive
    /\ \E p \in ReturnedIds : p \in owned
    /\ \E p \in ReturnedIds : heap[p].frees = 1

====
